---- MODULE Spec2Model ----
(***************************************************************************)
(* Model of scripts/fetch-feishu-data.js (EasyHanzi data sync):            *)
(*   - processSheetData, the row normaliser, as an operator computed the   *)
(*     way the JavaScript computes it (forEach over the header row with    *)
(*     last-assignment-wins, `value || ''`, the icon unwrapping, the       *)
(*     trailing filter);                                                   *)
(*   - fetchAndUploadData, the run, as a state machine whose steps are     *)
(*     getFeishuToken, getSheetInfo, batchGetSheetData, the processing of  *)
(*     the four value ranges, the local write and uploadToOSS.             *)
(* Two specifications: SpecNorm applies processSheetData to every value    *)
(* range of a bounded family; Spec is one run of fetchAndUploadData.       *)
(***************************************************************************)
EXTENDS Integers, Sequences, FiniteSets, TLC

\* ------------------------------------------------------------------------
\* Bounds of the value ranges fed to processSheetData under SpecNorm.
MaxCols == 3
MaxRows == 1
MaxCells == 2

\* ------------------------------------------------------------------------
\* JavaScript values.  A string is the sequence of its characters, so that
\* trim() is computed and not assumed.
Undefined == [k |-> "undefined"]
Null == [k |-> "null"]
Str(chars) == [k |-> "string", v |-> chars]
Num(n) == [k |-> "number", v |-> n]
Bool(b) == [k |-> "boolean", v |-> b]
Obj(fields) == [k |-> "object", v |-> fields]
Arr(elems) == [k |-> "array", v |-> elems]

EmptyString == Str(<< >>)

\* ToBoolean: what `x || y`, `x && y` and `!x` test.
Truthy(x) ==
  CASE x.k = "undefined" -> FALSE
    [] x.k = "null" -> FALSE
    [] x.k = "string" -> Len(x.v) > 0
    [] x.k = "number" -> x.v # 0
    [] x.k = "boolean" -> x.v
    [] OTHER -> TRUE

\* a || b
Or(a, b) == IF Truthy(a) THEN a ELSE b

\* typeof x === 'object'
TypeofObject(x) == x.k \in {"null", "object", "array"}

\* x[0]
Index0(x) ==
  CASE x.k = "array" -> IF Len(x.v) > 0 THEN x.v[1] ELSE Undefined
    [] x.k = "string" -> IF Len(x.v) > 0 THEN Str(<<x.v[1]>>) ELSE Undefined
    [] OTHER -> Undefined

\* x?.name
OptProp(x, name) ==
  CASE x.k \in {"undefined", "null"} -> Undefined
    [] x.k = "object" -> IF name \in DOMAIN x.v THEN x.v[name] ELSE Undefined
    [] OTHER -> Undefined

\* String.prototype.trim on a character sequence.
RECURSIVE TrimLeft(_)
TrimLeft(s) == IF s # << >> /\ Head(s) = " " THEN TrimLeft(Tail(s)) ELSE s

RECURSIVE TrimRight(_)
TrimRight(s) ==
  IF s # << >> /\ s[Len(s)] = " " THEN TrimRight(SubSeq(s, 1, Len(s) - 1)) ELSE s

Trim(s) == TrimRight(TrimLeft(s))

Icon == <<"i", "c", "o", "n">>

\* ------------------------------------------------------------------------
\* processSheetData (fetch-feishu-data.js:213-253).

\* `if (header && header.trim())`; trim of a truthy non-string throws.
HeaderThrows(header) == Truthy(header) /\ header.k # "string"

\* Variant of HeaderIncluded that tests the header without trimming it.
HeaderIncludedUntrimmed(header) == Truthy(header) /\ header.k = "string"

HeaderIncluded(header) ==
  Truthy(header) /\ header.k = "string" /\ Trim(header.v) # << >>

\* `index < row.length ? row[index] : ''` (index is 0-based, i is 1-based).
CellAt(row, i) == IF i <= Len(row) THEN row[i] ELSE EmptyString

\* Variant of IconValue that reads link and text off the cell itself
\* (value.link || value.text || '').
IconValueDirect(value) ==
  IF Truthy(value) /\ TypeofObject(value)
  THEN Or(Or(OptProp(value, "link"), OptProp(value, "text")), EmptyString)
  ELSE Or(value, EmptyString)

\* The icon branch: value[0]?.link || value[0]?.text || ''.
IconValue(value) ==
  IF Truthy(value) /\ TypeofObject(value)
  THEN Or(Or(OptProp(Index0(value), "link"), OptProp(Index0(value), "text")),
          EmptyString)
  ELSE Or(value, EmptyString)

\* What item[header] is assigned for one included header.
FieldValue(header, value) ==
  IF header.v = Icon THEN IconValue(value) ELSE Or(value, EmptyString)

\* item[key] = val on a JavaScript object: a later assignment overwrites.
Assign(item, key, val) ==
  [x \in (DOMAIN item) \cup {key} |-> IF x = key THEN val ELSE item[x]]

EmptyItem == [x \in {} |-> EmptyString]

\* headers.forEach((header, index) => ...) from index i on.
RECURSIVE ForEachHeader(_, _, _, _)
ForEachHeader(headers, row, i, item) ==
  IF i > Len(headers) THEN item
  ELSE IF HeaderIncluded(headers[i])
       THEN ForEachHeader(headers, row, i + 1,
              Assign(item, headers[i].v, FieldValue(headers[i], CellAt(row, i))))
       ELSE ForEachHeader(headers, row, i + 1, item)

MakeItem(headers, row) == ForEachHeader(headers, row, 1, EmptyItem)

\* .filter(item => Object.values(item).some(v => v !== ''))
KeepItem(item) == \E x \in DOMAIN item : item[x] # EmptyString

\* What a call produces: whether it threw, the array it returned, and the
\* array `rows.map(...)` built before the filter (one item per data row).
Returned(seq, mapped) == [threw |-> FALSE, value |-> seq, items |-> mapped]
Thrown == [threw |-> TRUE, value |-> << >>, items |-> << >>]

\* Variant of processSheetData without the `!valueRange.values` guard:
\* `valueRange.values.length` throws when there is no values grid.
processSheetDataUnguarded(vr) ==
  IF vr = Undefined \/ ~Truthy(vr.values)
  THEN Thrown
  ELSE IF Len(vr.values.v) < 2
  THEN Returned(<< >>, << >>)
  ELSE LET headers == vr.values.v[1]
           rows == Tail(vr.values.v)
           items == [r \in 1..Len(rows) |-> MakeItem(headers, rows[r])]
       IN Returned(SelectSeq(items, KeepItem), items)

processSheetData(vr) ==
  IF vr = Undefined
  THEN Thrown    \* the guard is true and `valueRange.range` in the warning throws
  ELSE IF ~Truthy(vr.values) \/ Len(vr.values.v) < 2
  THEN Returned(<< >>, << >>)
  ELSE LET headers == vr.values.v[1]
           rows == Tail(vr.values.v)
           items == [r \in 1..Len(rows) |-> MakeItem(headers, rows[r])]
       IN IF rows # << >> /\ \E i \in 1..Len(headers) : HeaderThrows(headers[i])
          THEN Thrown
          ELSE Returned(SelectSeq(items, KeepItem), items)

\* ------------------------------------------------------------------------
\* State.
VARIABLES
  valueRange,     \* SpecNorm: the argument of processSheetData
  processedData,  \* SpecNorm: what the call produced
  called,         \* SpecNorm: whether processSheetData has been called
  pc,             \* Spec: the stage fetchAndUploadData is about to run
  env,            \* Spec: which configuration values process.env holds
  requests,       \* Spec: the network requests issued so far, in order
  sheets,         \* Spec: the sheet list the metadata query returned
  sheetsInfo,     \* Spec: the title -> sheet_id map getSheetInfo returned
  valueRanges,    \* Spec: what batchGetSheetData returned
  appData,        \* Spec: the Document built from the four value ranges
  outputFile,     \* Spec: the content of OUTPUT_FILE, or NoFile
  ossObject,      \* Spec: the object stored under OSS_FILE_PATH, or NoFile
  exitCode,       \* Spec: Running, 0 or 1
  error,          \* Spec: the message of the error that ended the run
  variant,        \* SpecJoin: which fetchAndConvertData runs (part_001 or part_002)
  spreadsheet,    \* SpecJoin: the values grid the service holds for each sheet
  fetches,        \* SpecJoin: the four getSheetData promises given to Promise.all
  completed       \* SpecJoin: the indices of the settled promises, in settling order

normVars == <<valueRange, processedData, called>>

runVars ==
  <<pc, env, requests, sheets, sheetsInfo, valueRanges, appData, outputFile, ossObject,
    exitCode, error>>

joinVars == <<variant, spreadsheet, fetches, completed>>

vars == <<normVars, runVars, joinVars>>

\* The variables of the concurrent variants while fetch-feishu-data.js runs.
IdleJoin ==
  /\ variant = "fetch-feishu-data.js"
  /\ spreadsheet = << >>
  /\ fetches = << >>
  /\ completed = << >>

Min(a, b) == IF a < b THEN a ELSE b

SeqsUpTo(S, n) == UNION { [1..k -> S] : k \in 0..n }

\* ------------------------------------------------------------------------
\* The run: fetchAndUploadData (fetch-feishu-data.js:318-368).

\* process.env (lines 29-36): TRUE where the variable is set.  OSS_REGION has
\* a default and is never missing.
Envs ==
  [ FEISHU_APP_ID : BOOLEAN, FEISHU_APP_SECRET : BOOLEAN,
    FEISHU_SPREADSHEET_TOKEN : BOOLEAN, OSS_ACCESS_KEY_ID : BOOLEAN,
    OSS_ACCESS_KEY_SECRET : BOOLEAN, OSS_BUCKET : BOOLEAN ]

\* SHEET_NAMES (lines 42-47), in Object.entries order.
SHEET_NAMES == <<"Courses", "Characters", "Words", "Sentences">>

\* The titles a spreadsheet may hold: the required ones and one more.
Titles == { "Courses", "Characters", "Words", "Sentences", "Notes" }

\* The sheet_id the service gives each sheet.
SheetIdOf(title) ==
  CASE title = "Courses" -> "sht1"
    [] title = "Characters" -> "sht2"
    [] title = "Words" -> "sht3"
    [] title = "Sentences" -> "sht4"
    [] OTHER -> "sht5"

\* response.data.data.sheets: any of the sheets, each title once, listed in
\* one of two orders.
SheetOrders ==
  { <<"Courses", "Characters", "Words", "Sentences", "Notes">>,
    <<"Notes", "Sentences", "Words", "Characters", "Courses">> }

SheetLists ==
  { SelectSeq(order, LAMBDA t : t \in present) :
      order \in SheetOrders, present \in SUBSET Titles }

\* sheets.reduce((acc, sheet) => { acc[sheet.title] = sheet.sheet_id; ... }, {})
RECURSIVE ReduceSheets(_, _)
ReduceSheets(list, acc) ==
  IF list = << >> THEN acc
  ELSE ReduceSheets(Tail(list),
         [t \in (DOMAIN acc) \cup {Head(list)} |->
            IF t = Head(list) THEN SheetIdOf(Head(list)) ELSE acc[t]])

EmptyMap == [t \in {} |-> ""]

\* Variant of FirstMissing that looks up only the title at index i.
FirstMissingOneTitle(sheetMap, i) ==
  IF SHEET_NAMES[i] \notin DOMAIN sheetMap THEN i ELSE 0

\* for (const [key, name] of Object.entries(SHEET_NAMES)) if (!sheetMap[name]) throw
\* : the index of the first required title the map lacks, 0 if none.
RECURSIVE FirstMissing(_, _)
FirstMissing(sheetMap, i) ==
  IF i > Len(SHEET_NAMES) THEN 0
  ELSE IF SHEET_NAMES[i] \notin DOMAIN sheetMap THEN i
  ELSE FirstMissing(sheetMap, i + 1)

\* `${sheetId}!A1:Z3000`
RangeOf(sheetId) == [sheet |-> sheetId, cells |-> "A1:Z3000"]

\* Variant of Ranges that lists the ranges from the last table to the first.
RangesLastFirst(info) ==
  [i \in 1..Len(SHEET_NAMES) |-> RangeOf(info[SHEET_NAMES[Len(SHEET_NAMES) + 1 - i]])]

\* Object.entries(SHEET_NAMES).map(([key, name]) => `${sheetsInfo[name]}!A1:Z3000`)
Ranges(info) == [i \in 1..Len(SHEET_NAMES) |-> RangeOf(info[SHEET_NAMES[i]])]

\* The network requests.
PostToken == [op |-> "POST /auth/v3/tenant_access_token/internal", ranges |-> << >>]
GetSheets == [op |-> "GET /sheets/v3/spreadsheets/:token/sheets/query", ranges |-> << >>]
BatchGet(ranges) == [op |-> "GET /sheets/v2/spreadsheets/:token/values_batch_get", ranges |-> ranges]
PutObject == [op |-> "PUT data/app-data.json", ranges |-> << >>]

\* Errors, by the message thrown.
Err(msg) == [msg |-> msg, sheet |-> ""]
NoError == Err("")
MissingFeishuCredentials == Err("missing FEISHU_APP_ID or FEISHU_APP_SECRET")
TokenRejected == Err("token request answered with a non-zero code")
MissingTokenOrSpreadsheet == Err("missing access token or spreadsheet id")
SheetInfoRejected == Err("sheet query answered with a non-zero code")
MissingSheet(name) == [msg |-> "required sheet not found", sheet |-> name]
BatchRejected == Err("batch read answered with a non-zero code")
RequestFailed == Err("request failed")
TypeError == Err("TypeError")
EmptyDataset == Err("no sheet yielded valid data")
WriteFailed == Err("writeFileSync failed")
MissingOssKeyId == Err("missing OSS_ACCESS_KEY_ID")
MissingOssKeySecret == Err("missing OSS_ACCESS_KEY_SECRET")
MissingOssBucket == Err("missing OSS_BUCKET")
PutFailed == Err("put failed")

\* The grids a sheet may hold in a run (the values of its Value Range).
NoValues == Undefined
HeaderOnly == Arr(<< <<Str(<<"a">>)>> >>)
OneRecord == Arr(<< <<Str(<<"a">>)>>, <<Str(<<"x">>)>> >>)
TwoOfThree ==
  Arr(<< <<Str(<<"a">>), Str(<<" ", "a">>)>>,
         <<Str(<<"x">>)>>,
         <<Null, EmptyString>>,
         <<EmptyString, Str(<<"x">>)>> >>)
ZeroCell == Arr(<< <<Str(<<"a">>)>>, <<Num(0)>> >>)
BlankHeader == Arr(<< <<Str(<<" ">>)>>, <<Str(<<"x">>)>> >>)

SheetGrids == { NoValues, HeaderOnly, OneRecord, TwoOfThree, ZeroCell, BlankHeader }

\* response.data.data.valueRanges for the requested ranges: one Value Range
\* per range in request order, or only the first few of them, or nothing.
NotFetched == [k |-> "not fetched"]

BatchResponses(ranges) ==
  { Undefined } \cup
  { Arr([i \in 1..n |-> [range |-> ranges[i], values |-> grids[i]]]) :
      n \in 0..Len(ranges), grids \in [1..Len(ranges) -> SheetGrids] }

\* valueRanges[i - 1]
RangeAt(vrs, i) == IF i <= Len(vrs.v) THEN vrs.v[i] ELSE Undefined

\* new Date().toISOString()
Timestamps == { "2025-01-01T02:00:00.000Z", "2025-01-02T02:00:00.000Z" }

NoData ==
  [lastUpdated |-> "", courses |-> << >>, characters |-> << >>, words |-> << >>,
   sentences |-> << >>]

\* JSON.stringify(appData, null, 2): the properties in insertion order.
JSONStringify(data) ==
  << <<"lastUpdated", data.lastUpdated>>, <<"courses", data.courses>>,
     <<"characters", data.characters>>, <<"words", data.words>>,
     <<"sentences", data.sentences>> >>

NoFile == << >>
Running == -1

InitRun ==
  /\ pc = "getFeishuToken"
  /\ env \in Envs
  /\ requests = << >>
  /\ sheets = NotFetched
  /\ sheetsInfo = EmptyMap
  /\ valueRanges = NotFetched
  /\ appData = NoData
  /\ outputFile = NoFile
  /\ ossObject = NoFile
  /\ exitCode = Running
  /\ error = NoError

\* Variant of Fail that logs the error and lets the process end with code 0.
FailExitZero(e) ==
  /\ error' = e
  /\ exitCode' = 0
  /\ pc' = "done"

\* catch (error) { console.error(...); process.exit(1); } (lines 364-367)
Fail(e) ==
  /\ error' = e
  /\ exitCode' = 1
  /\ pc' = "done"

\* Variant of getFeishuToken that posts the credentials again when the
\* request fails.
getFeishuTokenRetrying ==
  /\ pc = "getFeishuToken"
  /\ IF ~env.FEISHU_APP_ID \/ ~env.FEISHU_APP_SECRET
     THEN /\ Fail(MissingFeishuCredentials)
          /\ UNCHANGED requests
     ELSE /\ requests' = Append(requests, PostToken)
          /\ \/ /\ Len(requests) < 1
                /\ UNCHANGED <<pc, exitCode, error>>
             \/ Fail(TokenRejected)
             \/ /\ pc' = "getSheetInfo"
                /\ UNCHANGED <<exitCode, error>>
  /\ UNCHANGED <<env, sheets, sheetsInfo, valueRanges, appData, outputFile, ossObject>>
  /\ UNCHANGED normVars
  /\ UNCHANGED joinVars

\* getFeishuToken (lines 62-94).
getFeishuToken ==
  /\ pc = "getFeishuToken"
  /\ IF ~env.FEISHU_APP_ID \/ ~env.FEISHU_APP_SECRET
     THEN /\ Fail(MissingFeishuCredentials)
          /\ UNCHANGED requests
     ELSE /\ requests' = Append(requests, PostToken)
          /\ \/ Fail(RequestFailed)
             \/ Fail(TokenRejected)
             \/ /\ pc' = "getSheetInfo"
                /\ UNCHANGED <<exitCode, error>>
  /\ UNCHANGED <<env, sheets, sheetsInfo, valueRanges, appData, outputFile, ossObject>>
  /\ UNCHANGED normVars
  /\ UNCHANGED joinVars

\* getSheetInfo (lines 102-150); the token is the one just returned.
getSheetInfo ==
  /\ pc = "getSheetInfo"
  /\ IF ~env.FEISHU_SPREADSHEET_TOKEN
     THEN /\ Fail(MissingTokenOrSpreadsheet)
          /\ UNCHANGED <<requests, sheets, sheetsInfo>>
     ELSE /\ requests' = Append(requests, GetSheets)
          /\ \/ /\ Fail(RequestFailed)
                /\ UNCHANGED <<sheets, sheetsInfo>>
             \/ /\ Fail(SheetInfoRejected)
                /\ UNCHANGED <<sheets, sheetsInfo>>
             \/ /\ sheets' \in { Arr(list) : list \in SheetLists }
                /\ LET sheetMap == ReduceSheets(sheets'.v, EmptyMap)
                       missing == FirstMissing(sheetMap, 1)
                   IN IF missing # 0
                      THEN /\ Fail(MissingSheet(SHEET_NAMES[missing]))
                           /\ UNCHANGED sheetsInfo
                      ELSE /\ sheetsInfo' = sheetMap
                           /\ pc' = "batchGetSheetData"
                           /\ UNCHANGED <<exitCode, error>>
  /\ UNCHANGED <<env, valueRanges, appData, outputFile, ossObject>>
  /\ UNCHANGED normVars
  /\ UNCHANGED joinVars

\* batchGetSheetData (lines 159-206).
batchGetSheetData ==
  /\ pc = "batchGetSheetData"
  /\ requests' = Append(requests, BatchGet(Ranges(sheetsInfo)))
  /\ \/ /\ Fail(RequestFailed)
        /\ UNCHANGED valueRanges
     \/ /\ Fail(BatchRejected)
        /\ UNCHANGED valueRanges
     \/ /\ valueRanges' \in BatchResponses(Ranges(sheetsInfo))
        /\ pc' = "processData"
        /\ UNCHANGED <<exitCode, error>>
  /\ UNCHANGED <<env, sheets, sheetsInfo, appData, outputFile, ossObject>>
  /\ UNCHANGED normVars
  /\ UNCHANGED joinVars

\* Variant of HasData that looks at the first table only.
HasDataFirstTable(dataStats) == dataStats[1] > 0

\* Object.values(dataStats).some(count => count > 0) (line 351)
HasData(dataStats) == \E i \in 1..Len(dataStats) : dataStats[i] > 0

\* Steps 4 and 5 of fetchAndUploadData (lines 332-354): build appData from
\* the four value ranges, then require that some table has a record.
processData ==
  /\ pc = "processData"
  /\ IF valueRanges = Undefined
     THEN /\ Fail(TypeError)    \* valueRanges[0] of undefined
          /\ UNCHANGED appData
     ELSE LET courses == processSheetData(RangeAt(valueRanges, 1))
              characters == processSheetData(RangeAt(valueRanges, 2))
              words == processSheetData(RangeAt(valueRanges, 3))
              sentences == processSheetData(RangeAt(valueRanges, 4))
              hasData ==
                HasData(<<Len(courses.value), Len(characters.value),
                          Len(words.value), Len(sentences.value)>>)
          IN IF courses.threw \/ characters.threw \/ words.threw \/ sentences.threw
             THEN /\ Fail(TypeError)
                  /\ UNCHANGED appData
             ELSE /\ \E now \in Timestamps :
                       appData' =
                         [lastUpdated |-> now, courses |-> courses.value,
                          characters |-> characters.value, words |-> words.value,
                          sentences |-> sentences.value]
                  /\ IF ~hasData
                     THEN Fail(EmptyDataset)
                     ELSE /\ pc' = "writeFile"
                          /\ UNCHANGED <<exitCode, error>>
  /\ UNCHANGED <<env, requests, sheets, sheetsInfo, valueRanges, outputFile, ossObject>>
  /\ UNCHANGED normVars
  /\ UNCHANGED joinVars

\* Step 6 (lines 356-358): fs.writeFileSync(OUTPUT_FILE, JSON.stringify(appData, null, 2)).
writeFile ==
  /\ pc = "writeFile"
  /\ \/ /\ Fail(WriteFailed)
        /\ UNCHANGED outputFile
     \/ /\ outputFile' = JSONStringify(appData)
        /\ pc' = "uploadToOSS"
        /\ UNCHANGED <<exitCode, error>>
  /\ UNCHANGED <<env, requests, sheets, sheetsInfo, valueRanges, appData, ossObject>>
  /\ UNCHANGED normVars
  /\ UNCHANGED joinVars

\* Variant of OssConfigError without the OSS_BUCKET check.
OssConfigErrorNoBucket(e) ==
  IF ~e.OSS_ACCESS_KEY_ID THEN MissingOssKeyId
  ELSE IF ~e.OSS_ACCESS_KEY_SECRET THEN MissingOssKeySecret
  ELSE NoError

\* The configuration checks of uploadToOSS (lines 266-277): the error of the
\* first check that fails, NoError if none does.
OssConfigError(e) ==
  IF ~e.OSS_ACCESS_KEY_ID THEN MissingOssKeyId
  ELSE IF ~e.OSS_ACCESS_KEY_SECRET THEN MissingOssKeySecret
  ELSE IF ~e.OSS_BUCKET THEN MissingOssBucket
  ELSE NoError

\* Variant of uploadToOSS that stamps the uploaded Document anew.
uploadToOSSRestamped ==
  /\ pc = "uploadToOSS"
  /\ IF OssConfigError(env) # NoError
     THEN /\ Fail(OssConfigError(env))
          /\ UNCHANGED <<requests, ossObject>>
     ELSE /\ requests' = Append(requests, PutObject)
          /\ \/ /\ Fail(PutFailed)
                /\ UNCHANGED ossObject
             \/ /\ \E now \in Timestamps :
                     ossObject' = JSONStringify([appData EXCEPT !.lastUpdated = now])
                /\ exitCode' = 0
                /\ pc' = "done"
                /\ UNCHANGED error
  /\ UNCHANGED <<env, sheets, sheetsInfo, valueRanges, appData, outputFile>>
  /\ UNCHANGED normVars
  /\ UNCHANGED joinVars

\* uploadToOSS(appData) (lines 260-313), then the end of the run.
uploadToOSS ==
  /\ pc = "uploadToOSS"
  /\ IF OssConfigError(env) # NoError
     THEN /\ Fail(OssConfigError(env))
          /\ UNCHANGED <<requests, ossObject>>
     ELSE /\ requests' = Append(requests, PutObject)
          /\ \/ /\ Fail(PutFailed)
                /\ UNCHANGED ossObject
             \/ /\ ossObject' = JSONStringify(appData)
                /\ exitCode' = 0
                /\ pc' = "done"
                /\ UNCHANGED error
  /\ UNCHANGED <<env, sheets, sheetsInfo, valueRanges, appData, outputFile>>
  /\ UNCHANGED normVars
  /\ UNCHANGED joinVars

\* ------------------------------------------------------------------------
\* The value ranges of SpecNorm.
\* Two families of grids.  Plain grids: blank, padded and repeated headers
\* over plain cells.  Icon grids: an `icon` column over rich cells.
PlainHeaders == { Str(<< >>), Str(<<" ">>), Str(<<"a">>), Str(<<" ", "a">>) }

PlainCells == { EmptyString, Str(<<"x">>), Num(0), Null }

IconHeaders == { Str(Icon), Str(<<"a">>) }

Link == Str(<<"L">>)
Text == Str(<<"T">>)

IconCells ==
  { EmptyString, Str(<<"x">>),
    Arr(<<Obj([link |-> Link, text |-> Text])>>),
    Arr(<<Obj([text |-> Text])>>),
    Obj([link |-> Link, text |-> Text]) }

\* Lists of at most n data rows over the cells C, each of at most MaxCols
\* cells, holding at most budget cells in all.
RECURSIVE RowLists(_, _, _)
RowLists(C, n, budget) ==
  IF n = 0 THEN { << >> }
  ELSE { << >> } \cup
       UNION { { <<row>> \o rest : rest \in RowLists(C, n - 1, budget - Len(row)) } :
               row \in SeqsUpTo(C, Min(MaxCols, budget)) }

NormRange == "Sheet1!A1:Z3000"

ValueRange(values) == [range |-> NormRange, values |-> values]

\* vr is a grid: a header row over H followed by data rows over C.
IsGrid(vr, H, C) ==
  \E headers \in SeqsUpTo(H, MaxCols) :
    \E rows \in RowLists(C, MaxRows, MaxCells) :
      vr = ValueRange(Arr(<<headers>> \o rows))

\* The bounded inputs: a missing entry, a range without a values grid, an
\* empty grid, or a header row followed by data rows.
IsNormInput(vr) ==
  \/ vr \in { Undefined, ValueRange(Undefined), ValueRange(Arr(<< >>)) }
  \/ IsGrid(vr, PlainHeaders, PlainCells)
  \/ IsGrid(vr, IconHeaders, IconCells)

NotCalled == Returned(<< >>, << >>)

\* The run's variables while only processSheetData is exercised.
IdleRun ==
  /\ pc = "idle"
  /\ env = [n \in DOMAIN CHOOSE e \in Envs : TRUE |-> TRUE]
  /\ requests = << >>
  /\ sheets = NotFetched
  /\ sheetsInfo = EmptyMap
  /\ valueRanges = NotFetched
  /\ appData = NoData
  /\ outputFile = NoFile
  /\ ossObject = NoFile
  /\ exitCode = Running
  /\ error = NoError

InitNorm ==
  /\ valueRange = Undefined
  /\ processedData = NotCalled
  /\ called = FALSE
  /\ IdleRun
  /\ IdleJoin

\* One call of processSheetData, on any of the bounded inputs.
Normalize ==
  /\ ~called
  /\ IsNormInput(valueRange')
  /\ processedData' = processSheetData(valueRange')
  /\ called' = TRUE
  /\ UNCHANGED runVars
  /\ UNCHANGED joinVars

NextNorm == Normalize

SpecNorm == InitNorm /\ [][NextNorm]_vars

\* ------------------------------------------------------------------------
\* One run of fetchAndUploadData.
Init ==
  /\ valueRange = Undefined
  /\ processedData = NotCalled
  /\ called = FALSE
  /\ InitRun
  /\ IdleJoin

Next ==
  \/ getFeishuToken
  \/ getSheetInfo
  \/ batchGetSheetData
  \/ processData
  \/ writeFile
  \/ uploadToOSS

Spec == Init /\ [][Next]_vars

\* ------------------------------------------------------------------------
\* The concurrent variants of the run: fetchAndConvertData of part_001
\* (lines 77-108) and of part_002 (lines 125-175).  Each calls getSheetData
\* once per table, hands the four promises to Promise.all and awaits the join.
Variants == { "part_001", "part_002" }

\* The grids a sheet may hold in a run of a variant.
NoColumnHeaders == Arr(<< << >>, <<Str(<<"x">>)>> >>)

JoinGrids == { NoValues, OneRecord, ZeroCell, NoColumnHeaders }

\* columnHeaders.forEach((header, colIndex) => { item[header] = row[colIndex] || ''; })
RECURSIVE ForEachColumnHeader(_, _, _, _)
ForEachColumnHeader(columnHeaders, row, i, item) ==
  IF i > Len(columnHeaders) THEN item
  ELSE ForEachColumnHeader(columnHeaders, row, i + 1,
         Assign(item, columnHeaders[i].v, Or(CellAt(row, i), EmptyString)))

\* What getSheetData makes of response.data.data.values: part_001 lines 54-69,
\* part_002 lines 89-116 (which refuses an empty header row and filters the
\* rows whose fields are all '').
getSheetData(v, rows) ==
  IF ~Truthy(rows) \/ Len(rows.v) < 2
  THEN Returned(<< >>, << >>)
  ELSE LET columnHeaders == rows.v[1]
           data == Tail(rows.v)
           items ==
             [r \in 1..Len(data) |-> ForEachColumnHeader(columnHeaders, data[r], 1, EmptyItem)]
       IN IF v = "part_002" /\ Len(columnHeaders) = 0
          THEN Thrown
          ELSE Returned(IF v = "part_002" THEN SelectSeq(items, KeepItem) ELSE items,
                        items)

\* The sheet a getSheetData call names: part_001 passes the title itself
\* (lines 86-89), part_002 the sheet_id of the title and the cell range
\* (lines 79, 145-148).
SheetRange(v, info, i) ==
  IF v = "part_001"
  THEN [sheet |-> SHEET_NAMES[i], cells |-> ""]
  ELSE RangeOf(info[SHEET_NAMES[i]])

\* The sheet of the spreadsheet that a title or a sheet_id designates.
SheetIndex(key) ==
  CHOOSE i \in 1..Len(SHEET_NAMES) : key \in { SHEET_NAMES[i], SheetIdOf(SHEET_NAMES[i]) }

GetSheetList == [op |-> "GET /sheets/v2/spreadsheets/:token/sheets", ranges |-> << >>]
GetValues(range) ==
  [op |-> "GET /sheets/v2/spreadsheets/:token/values/:range", ranges |-> <<range>>]

SheetListRejected == Err("sheet list answered with a non-zero code")
SheetDataRejected == Err("sheet data answered with a non-zero code")
EmptyColumnHeaders == Err("sheet has no column headers")
AllSheetsEmpty == Err("no sheet returned data")

\* A promise returned by getSheetData.
Pending(range) == [state |-> "pending", range |-> range, value |-> << >>, reason |-> NoError]
Fulfilled(p, value) == [p EXCEPT !.state = "fulfilled", !.value = value]
Rejected(p, reason) == [p EXCEPT !.state = "rejected", !.reason = reason]

\* Variant of PromiseAll that lists the values in the order the promises
\* fulfilled.
PromiseAllInSettlingOrder(ps, order) ==
  IF \E i \in 1..Len(ps) : ps[i].state = "rejected"
  THEN LET k == CHOOSE k \in 1..Len(order) :
                  /\ ps[order[k]].state = "rejected"
                  /\ \A j \in 1..(k - 1) : ps[order[j]].state # "rejected"
       IN [state |-> "rejected", values |-> << >>, reason |-> ps[order[k]].reason]
  ELSE IF \A i \in 1..Len(ps) : ps[i].state = "fulfilled"
  THEN [state |-> "fulfilled", values |-> [i \in 1..Len(ps) |-> ps[order[i]].value],
        reason |-> NoError]
  ELSE [state |-> "pending", values |-> << >>, reason |-> NoError]

\* Promise.all(ps), the promises having settled in the given order: rejected
\* with the reason of the first promise that rejected, fulfilled with the
\* values in the order of the promises once all have fulfilled.
PromiseAll(ps, order) ==
  IF \E i \in 1..Len(ps) : ps[i].state = "rejected"
  THEN LET k == CHOOSE k \in 1..Len(order) :
                  /\ ps[order[k]].state = "rejected"
                  /\ \A j \in 1..(k - 1) : ps[order[j]].state # "rejected"
       IN [state |-> "rejected", values |-> << >>, reason |-> ps[order[k]].reason]
  ELSE IF \A i \in 1..Len(ps) : ps[i].state = "fulfilled"
  THEN [state |-> "fulfilled", values |-> [i \in 1..Len(ps) |-> ps[i].value],
        reason |-> NoError]
  ELSE [state |-> "pending", values |-> << >>, reason |-> NoError]

InitJoin ==
  /\ valueRange = Undefined
  /\ processedData = NotCalled
  /\ called = FALSE
  /\ pc = "fetchAndConvertData"
  /\ env = [n \in DOMAIN CHOOSE e \in Envs : TRUE |-> TRUE]
  /\ requests = << >>
  /\ sheets = NotFetched
  /\ sheetsInfo = EmptyMap
  /\ valueRanges = NotFetched
  /\ appData = NoData
  /\ outputFile = NoFile
  /\ ossObject = NoFile
  /\ exitCode = Running
  /\ error = NoError
  /\ variant \in Variants
  /\ spreadsheet \in [1..Len(SHEET_NAMES) -> JoinGrids]
  /\ fetches = << >>
  /\ completed = << >>

\* `const token = await getFeishuToken()` (part_001 line 82, part_002 line
\* 129): the variants post the credentials without testing them.
awaitGetFeishuToken ==
  /\ pc = "fetchAndConvertData"
  /\ requests' = Append(requests, PostToken)
  /\ \/ Fail(RequestFailed)
     \/ Fail(TokenRejected)
     \/ /\ pc' = IF variant = "part_002" THEN "getSheetList" ELSE "getSheetData"
        /\ UNCHANGED <<exitCode, error>>
  /\ UNCHANGED <<env, sheets, sheetsInfo, valueRanges, appData, outputFile, ossObject>>
  /\ UNCHANGED normVars
  /\ UNCHANGED joinVars

\* part_002 lines 133-141: getSheetList, the title -> sheet_id Map and the
\* check that every required title is in it.
getSheetList ==
  /\ pc = "getSheetList"
  /\ requests' = Append(requests, GetSheetList)
  /\ \/ /\ Fail(RequestFailed)
        /\ UNCHANGED <<sheets, sheetsInfo>>
     \/ /\ Fail(SheetListRejected)
        /\ UNCHANGED <<sheets, sheetsInfo>>
     \/ /\ sheets' \in { Arr(list) : list \in SheetLists }
        /\ LET sheetsMap == ReduceSheets(sheets'.v, EmptyMap)
               missing == FirstMissing(sheetsMap, 1)
           IN IF missing # 0
              THEN /\ Fail(MissingSheet(SHEET_NAMES[missing]))
                   /\ UNCHANGED sheetsInfo
              ELSE /\ sheetsInfo' = sheetsMap
                   /\ pc' = "getSheetData"
                   /\ UNCHANGED <<exitCode, error>>
  /\ UNCHANGED <<env, valueRanges, appData, outputFile, ossObject>>
  /\ UNCHANGED normVars
  /\ UNCHANGED joinVars

\* The argument of Promise.all (part_001 lines 85-90, part_002 lines 144-149):
\* the four getSheetData calls, each running up to its `await axios.get`.
callGetSheetData ==
  /\ pc = "getSheetData"
  /\ LET ranges == [i \in 1..Len(SHEET_NAMES) |-> SheetRange(variant, sheetsInfo, i)]
     IN /\ requests' = requests \o [i \in 1..Len(SHEET_NAMES) |-> GetValues(ranges[i])]
        /\ fetches' = [i \in 1..Len(SHEET_NAMES) |-> Pending(ranges[i])]
  /\ pc' = "Promise.all"
  /\ UNCHANGED <<env, sheets, sheetsInfo, valueRanges, appData, outputFile, ossObject,
                 exitCode, error>>
  /\ UNCHANGED <<variant, spreadsheet, completed>>
  /\ UNCHANGED normVars

\* What follows the join once the four promises have fulfilled (part_001
\* lines 92-103, part_002 lines 151-170): the destructuring, the empty check
\* of part_002, the Document and the local write.
writeAppData(values) ==
  IF variant = "part_002" /\ \A i \in 1..Len(values) : Len(values[i]) = 0
  THEN /\ Fail(AllSheetsEmpty)
       /\ UNCHANGED <<appData, outputFile>>
  ELSE /\ \E now \in Timestamps :
            appData' =
              [lastUpdated |-> now, courses |-> values[1], characters |-> values[2],
               words |-> values[3], sentences |-> values[4]]
       /\ \/ /\ Fail(WriteFailed)
             /\ UNCHANGED outputFile
          \/ /\ outputFile' = JSONStringify(appData')
             /\ exitCode' = 0
             /\ pc' = "done"
             /\ UNCHANGED error

\* The answer to the i-th getSheetData request arrives: the promise settles,
\* and the continuations that become runnable run before any other answer is
\* handled (a rejection reaches the catch of fetchAndConvertData, the last
\* fulfilment resumes it after the await).
getSheetDataSettles(i) ==
  /\ pc = "Promise.all"
  /\ fetches[i].state = "pending"
  /\ completed' = Append(completed, i)
  /\ \E answer \in { NoError, RequestFailed, SheetDataRejected } :
       LET result == getSheetData(variant, spreadsheet[SheetIndex(fetches[i].range.sheet)])
           settled ==
             IF answer # NoError THEN Rejected(fetches[i], answer)
             ELSE IF result.threw THEN Rejected(fetches[i], EmptyColumnHeaders)
             ELSE Fulfilled(fetches[i], result.value)
       IN fetches' = [fetches EXCEPT ![i] = settled]
  /\ LET all == PromiseAll(fetches', completed')
     IN CASE all.state = "pending" ->
               UNCHANGED <<pc, appData, outputFile, exitCode, error>>
          [] all.state = "rejected" ->
               /\ Fail(all.reason)
               /\ UNCHANGED <<appData, outputFile>>
          [] OTHER -> writeAppData(all.values)
  /\ UNCHANGED <<env, requests, sheets, sheetsInfo, valueRanges, ossObject>>
  /\ UNCHANGED <<variant, spreadsheet>>
  /\ UNCHANGED normVars

NextJoin ==
  \/ awaitGetFeishuToken
  \/ getSheetList
  \/ callGetSheetData
  \/ \E i \in 1..Len(SHEET_NAMES) : getSheetDataSettles(i)

SpecJoin == InitJoin /\ [][NextJoin]_vars

\* ------------------------------------------------------------------------
\* Properties of processSheetData (checked under SpecNorm).

\* processSheetData was called on a grid with a header row and data rows.
HasGrid ==
  /\ called
  /\ valueRange # Undefined
  /\ Truthy(valueRange.values)
  /\ Len(valueRange.values.v) >= 2

GridHeaders == valueRange.values.v[1]
GridRows == Tail(valueRange.values.v)
Items == processedData.items

\* Column i is the last column carrying its header.
LastOfHeader(i) ==
  \A j \in (i + 1)..Len(GridHeaders) : GridHeaders[j] # GridHeaders[i]

\* The columns whose header is literally `icon` (the last such column backs
\* the field).
IconColumns ==
  { i \in 1..Len(GridHeaders) : GridHeaders[i] = Str(Icon) /\ LastOfHeader(i) }

IsBareObject(cell) == cell.k = "object"
IsSegments(cell) == cell.k = "array" /\ Len(cell.v) > 0 /\ cell.v[1].k = "object"
HasProp(o, name) == name \in DOMAIN o.v /\ Truthy(o.v[name])

\* C1 as stated: in an `icon` column a structured cell {link: "L", text: "T"}
\* yields "L", a structured cell {text: "T"} yields "T", "" yields "" and a
\* plain string passes through unchanged.
C1_IconObjectYieldsLink ==
  HasGrid =>
    \A r \in 1..Len(GridRows) : \A i \in IconColumns :
      LET cell == CellAt(GridRows[r], i)
          out == Items[r][Icon]
      IN /\ (IsBareObject(cell) /\ HasProp(cell, "link") => out = cell.v.link)
         /\ (IsBareObject(cell) /\ ~HasProp(cell, "link") /\ HasProp(cell, "text")
               => out = cell.v.text)
         /\ (cell.k = "string" => out = cell)

\* C1 as amended: in an `icon` column a cell that is a list of segments yields
\* the link of its first segment if that is non-empty, else the text of its
\* first segment; a bare object {link, text} (not a list) yields ""; "" yields
\* "" and a plain string passes through unchanged.
C1_IconFirstSegment ==
  HasGrid =>
    \A r \in 1..Len(GridRows) : \A i \in IconColumns :
      LET cell == CellAt(GridRows[r], i)
          out == Items[r][Icon]
      IN /\ (IsSegments(cell) /\ HasProp(cell.v[1], "link") => out = cell.v[1].v.link)
         /\ (IsSegments(cell) /\ ~HasProp(cell.v[1], "link") /\ HasProp(cell.v[1], "text")
               => out = cell.v[1].v.text)
         /\ (IsBareObject(cell) => out = EmptyString)
         /\ (cell.k = "string" => out = cell)

\* A call that unwrapped a list-of-segments cell carrying a link, and one
\* that fell back to the text.
C1_Witness ==
  /\ HasGrid
  /\ \E r \in 1..Len(GridRows) : \E i \in IconColumns :
       /\ i <= Len(GridRows[r])
       /\ IsSegments(GridRows[r][i])
       /\ HasProp(GridRows[r][i].v[1], "link")
       /\ Items[r][Icon] = Link
       /\ Len(processedData.value) = 1

\* A header cell that is a string with something other than whitespace in it.
NonBlankHeader(h) == h.k = "string" /\ Trim(h.v) # << >>

\* A cell that holds something: not "", not null, not undefined.
NonEmptyCell(cell) == cell \notin { EmptyString, Null, Undefined }

IsPrimitive(cell) == cell.k \in { "string", "number", "boolean" }

\* Row r has a non-empty plain (unstructured) cell under a non-blank header
\* that no later column repeats.
RowHasPlainValue(r) ==
  \E i \in 1..Len(GridHeaders) :
    /\ i <= Len(GridRows[r])
    /\ NonBlankHeader(GridHeaders[i])
    /\ LastOfHeader(i)
    /\ IsPrimitive(GridRows[r][i])
    /\ NonEmptyCell(GridRows[r][i])

InOutput(item) == \E j \in 1..Len(processedData.value) : processedData.value[j] = item

\* C2 as stated: no Record of the output has all its fields empty, and a data
\* row with at least one non-empty cell under an included header, whatever
\* the cell's value (0 and false included), yields a Record of the output.
C2_NonEmptyRowKept ==
  HasGrid /\ ~processedData.threw =>
    /\ \A j \in 1..Len(processedData.value) :
         \E key \in DOMAIN processedData.value[j] :
           processedData.value[j][key] # EmptyString
    /\ \A r \in 1..Len(GridRows) : RowHasPlainValue(r) => InOutput(Items[r])

\* C3 as stated: for a data row shorter than the header row, a kept Record
\* has one key per included header, the fields past the end of the row are ""
\* and the fields within the row hold the row's value at that column (read
\* here for the columns that are not `icon` and whose header is not repeated).
C3_ShortRowFields ==
  HasGrid /\ ~processedData.threw =>
    \A r \in 1..Len(GridRows) :
      Len(GridRows[r]) < Len(GridHeaders) /\ InOutput(Items[r]) =>
        \A i \in 1..Len(GridHeaders) :
          NonBlankHeader(GridHeaders[i]) =>
            /\ GridHeaders[i].v \in DOMAIN Items[r]
            /\ (LastOfHeader(i) /\ i > Len(GridRows[r])
                  => Items[r][GridHeaders[i].v] = EmptyString)
            /\ (LastOfHeader(i) /\ i <= Len(GridRows[r]) /\ GridHeaders[i].v # Icon
                  /\ GridRows[r][i] # Null
                  => Items[r][GridHeaders[i].v] = GridRows[r][i])

\* C4: a Value Range with no values grid, or with fewer than 2 rows, makes
\* processSheetData return the empty sequence without raising.
C4_FewRowsEmpty ==
  called /\ valueRange # Undefined
    /\ (~Truthy(valueRange.values) \/ Len(valueRange.values.v) < 2)
    => ~processedData.threw /\ processedData.value = << >>

\* A call on a header-only grid, which returned the empty sequence.
C4_Witness ==
  /\ called
  /\ valueRange # Undefined
  /\ Truthy(valueRange.values)
  /\ Len(valueRange.values.v) = 1
  /\ Len(valueRange.values.v[1]) > 0
  /\ ~processedData.threw
  /\ processedData.value = << >>

\* The keys of the Record built for row r.
Keys(r) == DOMAIN Items[r]

\* C5 as stated: header cells are trimmed before being used as keys, and a
\* blank header contributes no key.
C5_KeysTrimmed ==
  HasGrid /\ ~processedData.threw =>
    \A r \in 1..Len(GridRows) :
      Keys(r) = { Trim(GridHeaders[i].v) :
                    i \in { c \in 1..Len(GridHeaders) : NonBlankHeader(GridHeaders[c]) } }

\* What a cell can leave in a field: itself, "", or the link or text of its
\* first segment.
Leaves(cell) ==
  { cell, EmptyString } \cup
  (IF IsSegments(cell)
   THEN { cell.v[1].v[name] : name \in (DOMAIN cell.v[1].v) \cap { "link", "text" } }
   ELSE {})

\* C5 as amended: a header cell is tested for blankness after trimming but is
\* used as the Record key untrimmed; a column whose header is empty or only
\* whitespace contributes no key, and every field comes from a cell of a
\* column carrying that very header.
C5_KeysUntrimmed ==
  HasGrid /\ ~processedData.threw =>
    \A r \in 1..Len(GridRows) :
      /\ Keys(r) = { GridHeaders[i].v :
                       i \in { c \in 1..Len(GridHeaders) : NonBlankHeader(GridHeaders[c]) } }
      /\ \A key \in Keys(r) :
           \E i \in 1..Len(GridHeaders) :
             /\ GridHeaders[i] = Str(key)
             /\ Items[r][key] \in Leaves(CellAt(GridRows[r], i))

\* A call whose header row has a whitespace-padded header, kept untrimmed as
\* a key, next to a whitespace-only header whose non-empty cell is dropped.
C5_Witness ==
  /\ HasGrid
  /\ Len(GridHeaders) = 2
  /\ GridHeaders[1] = Str(<<" ">>)
  /\ GridHeaders[2] = Str(<<" ", "a">>)
  /\ GridRows[1] = <<Str(<<"x">>), Str(<<"x">>)>>
  /\ Keys(1) = { <<" ", "a">> }
  /\ Len(processedData.value) = 1

\* ------------------------------------------------------------------------
\* Properties of the run (checked under Spec).

Issued(op) == \E i \in 1..Len(requests) : requests[i].op = op
Required == { SHEET_NAMES[i] : i \in 1..Len(SHEET_NAMES) }
Listed == { sheets.v[i] : i \in 1..Len(sheets.v) }
MetadataReceived == sheets # NotFetched

\* C6: whenever a required sheet title is absent from the spreadsheet
\* metadata, the run fails naming an absent title, exits non-zero, issues no
\* range read, writes no output file and attempts no upload.
C6_MissingSheetFails ==
  MetadataReceived /\ Required \ Listed # {} =>
    /\ pc = "done"
    /\ exitCode = 1
    /\ error.msg = MissingSheet("").msg
    /\ error.sheet \in Required \ Listed
    /\ ~Issued(BatchGet(<< >>).op)
    /\ ~Issued(PutObject.op)
    /\ outputFile = NoFile
    /\ ossObject = NoFile

\* A run whose metadata lists Courses and Characters but not Words.
C6_Witness ==
  /\ MetadataReceived
  /\ { "Courses", "Characters", "Sentences", "Notes" } = Listed
  /\ error = MissingSheet("Words")
  /\ exitCode = 1
  /\ Len(requests) = 2

\* The four value ranges were returned and normalised.
Processed ==
  /\ valueRanges \notin { NotFetched, Undefined }
  /\ Len(valueRanges.v) = Len(SHEET_NAMES)
  /\ pc \notin { "processData" }

Tables == <<appData.courses, appData.characters, appData.words, appData.sentences>>

NormalisedCount(i) == Len(processSheetData(RangeAt(valueRanges, i)).value)

\* C7: when the four sheets are fetched and the four normalised tables have no
\* record, the run fails with the empty-dataset error, exits non-zero and
\* attempts neither the local write nor the upload; when some table has a
\* record the empty-dataset error is not raised.
C7_EmptyDatasetFails ==
  Processed =>
    /\ (\A i \in 1..Len(SHEET_NAMES) : NormalisedCount(i) = 0) =>
         /\ pc = "done"
         /\ error = EmptyDataset
         /\ exitCode = 1
         /\ outputFile = NoFile
         /\ ossObject = NoFile
         /\ ~Issued(PutObject.op)
    /\ (\E i \in 1..Len(SHEET_NAMES) : NormalisedCount(i) > 0) => error # EmptyDataset

\* A run that fetched four sheets whose rows are all empty or dropped.
C7_Witness ==
  /\ Processed
  /\ \A i \in 1..Len(SHEET_NAMES) : NormalisedCount(i) = 0
  /\ valueRanges.v[2].values = HeaderOnly
  /\ error = EmptyDataset
  /\ exitCode = 1

\* C8 as stated: if any required configuration value is absent, no network
\* call is ever made and the run ends with a configuration error.
C8_NoRequestWithoutConfig ==
  (\E n \in DOMAIN env : ~env[n]) =>
    /\ requests = << >>
    /\ (pc = "done" => exitCode = 1)

ConfigErrors ==
  { MissingFeishuCredentials, MissingTokenOrSpreadsheet, MissingOssKeyId,
    MissingOssKeySecret, MissingOssBucket }

\* C8 as amended: each configuration value is checked where it is first used.
\* Without the app id or the app secret the run fails with a configuration
\* error before any network call.  Without the spreadsheet identifier no
\* metadata GET, no range read and no upload happens (the credential POST
\* does).  Without a storage key id, key secret or bucket no upload happens
\* (the POST, the metadata GET, the range read and the local write may).  A
\* run that ends with any of them absent ends non-zero.
C8_ConfigCheckedAtUse ==
  /\ (~env.FEISHU_APP_ID \/ ~env.FEISHU_APP_SECRET) =>
       /\ requests = << >>
       /\ (pc = "done" => error = MissingFeishuCredentials)
  /\ ~env.FEISHU_SPREADSHEET_TOKEN =>
       /\ ~Issued(GetSheets.op)
       /\ ~Issued(BatchGet(<< >>).op)
       /\ ~Issued(PutObject.op)
  /\ (~env.OSS_ACCESS_KEY_ID \/ ~env.OSS_ACCESS_KEY_SECRET \/ ~env.OSS_BUCKET) =>
       /\ ~Issued(PutObject.op)
       /\ ossObject = NoFile
       /\ (pc = "done" /\ outputFile # NoFile => error \in ConfigErrors)
  /\ (\E n \in DOMAIN env : ~env[n]) => (pc = "done" => exitCode = 1)

\* A run without the bucket name that read the sheets and wrote the local
\* file before it failed on the configuration check of the upload.
C8_Witness ==
  /\ ~env.OSS_BUCKET
  /\ pc = "done"
  /\ error = MissingOssBucket
  /\ Len(requests) = 3
  /\ outputFile # NoFile
  /\ exitCode = 1

\* The full Document, as text.
FullDocument ==
  << <<"lastUpdated", appData.lastUpdated>>, <<"courses", appData.courses>>,
     <<"characters", appData.characters>>, <<"words", appData.words>>,
     <<"sentences", appData.sentences>> >>

Published ==
  /\ exitCode = 0
  /\ appData.lastUpdated \in Timestamps
  /\ outputFile = FullDocument
  /\ ossObject = FullDocument

\* C9 as stated: every run ends either with the full Document written and
\* uploaded (exit 0) or, on failure, with neither the local file nor the
\* uploaded object.
C9_AllOrNothing ==
  pc = "done" =>
    \/ Published
    \/ exitCode = 1 /\ outputFile = NoFile /\ ossObject = NoFile

UploadErrors == { MissingOssKeyId, MissingOssKeySecret, MissingOssBucket, PutFailed }

\* C9 as amended: every run ends either with the full Document written and
\* uploaded (exit 0) or in failure with nothing uploaded; a failed run leaves
\* no local file unless it failed in the upload stage (a missing storage
\* setting or a failed put), and then the local file holds the full Document.
C9_NothingUploadedOnFailure ==
  pc = "done" =>
    \/ Published
    \/ /\ exitCode = 1
       /\ error # NoError
       /\ ossObject = NoFile
       /\ IF error \in UploadErrors
          THEN outputFile = FullDocument
          ELSE outputFile = NoFile

\* A run whose put failed after the local file was written.
C9_Witness ==
  /\ pc = "done"
  /\ error = PutFailed
  /\ exitCode = 1
  /\ outputFile = FullDocument
  /\ ossObject = NoFile

\* The data rows of a grid with a non-empty cell under a non-blank header.
NonEmptyRows(values) ==
  { r \in 2..Len(values.v) :
      \E i \in 1..Len(values.v[1]) :
        /\ i <= Len(values.v[r])
        /\ NonBlankHeader(values.v[1][i])
        /\ NonEmptyCell(values.v[r][i]) }

\* Every sheet has a header row and a data row with a non-empty cell.
SheetsFilled ==
  /\ valueRanges \notin { NotFetched, Undefined }
  /\ Len(valueRanges.v) = Len(SHEET_NAMES)
  /\ \A i \in 1..Len(SHEET_NAMES) :
       /\ Truthy(valueRanges.v[i].values)
       /\ NonEmptyRows(valueRanges.v[i].values) # {}

\* No request, and not the local write, failed; nothing was missing from
\* the configuration.
AllSucceeded ==
  /\ error \notin { RequestFailed, TokenRejected, SheetInfoRejected, BatchRejected,
                     WriteFailed, PutFailed }
  /\ \A n \in DOMAIN env : env[n]

\* C10 as stated: when the four sheets exist, every request succeeds and each
\* sheet has a header row and a data row with a non-empty cell, the run
\* exits 0 and each table of the written Document has as many records as its
\* sheet has non-empty data rows; a run that ends on an error exits non-zero.
C10_CountsMatch ==
  /\ pc = "done" /\ SheetsFilled /\ AllSucceeded =>
       /\ exitCode = 0
       /\ outputFile = FullDocument
       /\ \A i \in 1..Len(SHEET_NAMES) :
            Len(Tables[i]) = Cardinality(NonEmptyRows(valueRanges.v[i].values))
  /\ pc = "done" /\ error # NoError => exitCode = 1

\* The operations of the requests issued so far, in order.
IssuedOps == [i \in 1..Len(requests) |-> requests[i].op]

\* The network requests of a run, in the order of their stages.
RequestOrder == <<PostToken.op, GetSheets.op, BatchGet(<< >>).op, PutObject.op>>

IsPrefix(s, t) == Len(s) <= Len(t) /\ \A i \in 1..Len(s) : s[i] = t[i]

Normalized == appData # NoData
Written == outputFile # NoFile
Uploaded == ossObject # NoFile

\* The errors of each stage (a failed request may be any of the three reads).
TokenErrors == { MissingFeishuCredentials, TokenRejected }
MetadataErrors == { MissingTokenOrSpreadsheet, SheetInfoRejected } \cup
                  { MissingSheet(SHEET_NAMES[i]) : i \in 1..Len(SHEET_NAMES) }
ReadErrors == { BatchRejected, RequestFailed }
NormalizationErrors == { TypeError, EmptyDataset }

\* C12: the stages of a run execute in the order credential exchange, sheet
\* metadata query, batched range read, normalization, local write, upload:
\* the requests issued are an initial part of POST token, GET sheets, GET
\* ranges, PUT object, each issued at most once; the Document is built only
\* after the range read, written only once built, and the upload requested
\* only once written.  A failure at any stage ends the run with exit code 1
\* and no later stage has executed.
C12_StagesInOrderNoRetry ==
  /\ IsPrefix(IssuedOps, RequestOrder)
  /\ Normalized => Len(requests) >= 3 /\ valueRanges \notin { NotFetched, Undefined }
  /\ Written => Normalized /\ outputFile = FullDocument
  /\ Issued(PutObject.op) => Written
  /\ Uploaded => Issued(PutObject.op) /\ ossObject = outputFile
  /\ pc = "done" => exitCode \in { 0, 1 }
  /\ exitCode = 0 <=> Uploaded
  /\ error # NoError =>
       /\ pc = "done"
       /\ exitCode = 1
       /\ ~Uploaded
       /\ error \in TokenErrors => Len(requests) <= 1 /\ sheets = NotFetched
       /\ error \in MetadataErrors => Len(requests) <= 2 /\ valueRanges = NotFetched
       /\ error \in TokenErrors \cup MetadataErrors \cup ReadErrors =>
            /\ valueRanges = NotFetched
            /\ ~Normalized
            /\ ~Written
            /\ ~Issued(PutObject.op)
       /\ error \in NormalizationErrors \cup { WriteFailed } =>
            /\ ~Written
            /\ ~Issued(PutObject.op)
       /\ error = TypeError => ~Normalized
  /\ error = NoError /\ pc = "done" => exitCode = 0

\* A run whose range read was answered with a non-zero code after the token
\* and the metadata were obtained: three requests, no Document, exit code 1.
C12_Witness ==
  /\ error = BatchRejected
  /\ IssuedOps = SubSeq(RequestOrder, 1, 3)
  /\ pc = "done"
  /\ exitCode = 1
  /\ ~Normalized
  /\ ~Written

\* The field of a stringified Document under the given key.
Field(text, key) == (CHOOSE i \in 1..Len(text) : text[i][1] = key)

\* C13: in every successful run the object stored under data/app-data.json
\* is identical to the content of the local output file, which is the
\* Document with its lastUpdated timestamp and its four tables; and whenever
\* the upload has been requested the local file had been written.
C13_UploadEqualsLocal ==
  /\ exitCode = 0 =>
       /\ Written
       /\ ossObject = outputFile
       /\ \A key \in { "lastUpdated", "courses", "characters", "words", "sentences" } :
            /\ ossObject[Field(ossObject, key)][2] = appData[key]
            /\ outputFile[Field(outputFile, key)][2] = appData[key]
       /\ appData.lastUpdated \in Timestamps
       /\ requests[Len(requests)] = PutObject
  /\ Issued(PutObject.op) => Written /\ outputFile = JSONStringify(appData)

\* A successful run that uploaded a Document with records.
C13_Witness ==
  /\ exitCode = 0
  /\ Uploaded
  /\ ossObject = outputFile
  /\ Len(appData.courses) > 0
  /\ Len(appData.sentences) > 0
  /\ Len(requests) = 4

\* The batched read succeeded and returned fewer Value Ranges than tables,
\* and the normalization stage has run.
FewerRangesProcessed ==
  /\ valueRanges \notin { NotFetched, Undefined }
  /\ Len(valueRanges.v) < Len(SHEET_NAMES)
  /\ pc # "processData"

\* C14 as stated: when the batched read succeeds with fewer than four Value
\* Ranges, processSheetData returns the empty sequence for each missing entry
\* without raising: the Document is built, the tables of the missing entries
\* are empty, and the run goes on to the empty-dataset check (which fails it
\* exactly when no table has a record).
C14_MissingRangeEmptyTable ==
  FewerRangesProcessed =>
    /\ error # TypeError
    /\ Normalized
    /\ \A i \in (Len(valueRanges.v) + 1)..Len(SHEET_NAMES) : Tables[i] = << >>
    /\ error = EmptyDataset <=> \A i \in 1..Len(SHEET_NAMES) : Tables[i] = << >>

\* The requests of the batched read issued so far.
BatchReads == { k \in 1..Len(requests) : requests[k].op = BatchGet(<< >>).op }

\* The returned Value Range whose range names the sheet of the given title.
ValueRangeOfTitle(title) ==
  CHOOSE vr \in { valueRanges.v[j] : j \in 1..Len(valueRanges.v) } :
    vr.range.sheet = SheetIdOf(title)

\* C15: in whatever order the metadata lists the sheets, the batched read
\* requests the ranges <sheet_id>!A1:Z3000 of Courses, Characters, Words and
\* Sentences in that order, each with the sheet_id the metadata gives its
\* title; and, the endpoint returning the ranges in request order, each table
\* of a Document that was built holds the records normalised from the Value
\* Range of the sheet carrying that table's title.
C15_TablesFollowTitles ==
  /\ \A k \in BatchReads :
       /\ MetadataReceived
       /\ Len(requests[k].ranges) = Len(SHEET_NAMES)
       /\ \A i \in 1..Len(SHEET_NAMES) :
            /\ SHEET_NAMES[i] \in Listed
            /\ requests[k].ranges[i].sheet = SheetIdOf(SHEET_NAMES[i])
            /\ requests[k].ranges[i].sheet = sheetsInfo[SHEET_NAMES[i]]
            /\ requests[k].ranges[i].cells = "A1:Z3000"
  /\ Normalized =>
       \A i \in 1..Len(SHEET_NAMES) :
         Tables[i] = processSheetData(ValueRangeOfTitle(SHEET_NAMES[i])).value

\* A run whose metadata lists the sheets from Sentences back to Courses and
\* whose Document has records in courses and in words only.
C15_Witness ==
  /\ MetadataReceived
  /\ sheets.v = <<"Notes", "Sentences", "Words", "Characters", "Courses">>
  /\ BatchReads # {}
  /\ Normalized
  /\ Len(appData.courses) = 1
  /\ Len(appData.characters) = 0
  /\ Len(appData.words) = 2
  /\ Len(appData.sentences) = 0

\* ------------------------------------------------------------------------
\* Properties of the concurrent variants (checked under SpecJoin).

\* The tables sequential fetching yields: each sheet's own records, fetched
\* and converted one after the other in the order of the tables.
OwnRecords == [i \in 1..Len(SHEET_NAMES) |-> getSheetData(variant, spreadsheet[i]).value]

AnyFetchRejected == \E i \in 1..Len(fetches) : fetches[i].state = "rejected"

\* C11: in the variants that issue the four per-table fetches concurrently
\* and join them, whatever the order in which the fetches complete, a written
\* Document holds in courses, characters, words and sentences the records of
\* the sheet of that title, as sequential fetching would; and once any of the
\* four fetches has failed, whatever completed before it, the run has ended
\* with exit code 1 and no output file.
C11_JoinOrderIndependent ==
  /\ outputFile # NoFile =>
       /\ Len(completed) = Len(SHEET_NAMES)
       /\ Tables = OwnRecords
       /\ outputFile = FullDocument
       /\ exitCode = 0
  /\ AnyFetchRejected =>
       /\ pc = "done"
       /\ exitCode = 1
       /\ outputFile = NoFile

\* A run whose fetches completed in the reverse of the order of the tables,
\* over sheets that do not all hold the same records, and wrote the Document.
C11_Witness ==
  /\ completed = <<4, 3, 2, 1>>
  /\ outputFile # NoFile
  /\ exitCode = 0
  /\ appData.courses # appData.sentences
  /\ appData.characters # appData.words

====
